---- MODULE Spec2Model ----
(***************************************************************************)
(* Model of the upload route of the Social Media Content Analyzer          *)
(* (src/app/api/upload/route.ts): POST validates an uploaded file,         *)
(* extracts its text with PDF.js or Tesseract, asks the Z-AI completion    *)
(* service for an analysis and answers with a JSON envelope.               *)
(*                                                                         *)
(* JavaScript values are tagged records; text is a sequence of one-        *)
(* character strings; an error message is a sequence of fragments, and     *)
(* String.prototype.includes is containment of a fragment.                 *)
(***************************************************************************)
EXTENDS Integers, Sequences, FiniteSets, TLC

(***************************************************************************)
(* JavaScript values                                                       *)
(***************************************************************************)
Undefined == [t |-> "undefined"]
Null == [t |-> "null"]
NaN == [t |-> "NaN"]
Num(n, d) == [t |-> "number", num |-> n, den |-> d]
Int_(n) == Num(n, 1)
Str(s) == [t |-> "string", str |-> s]
Bool(b) == [t |-> "boolean", bool |-> b]
Arr(a) == [t |-> "array", arr |-> a]
Obj(o) == [t |-> "object", obj |-> o]

\* The empty object: a field table with no keys.
NoFields == [k \in {} |-> Undefined]

\* ToBoolean: the falsy values are undefined, null, NaN, 0, "" and false.
Truthy(v) ==
  CASE v.t = "undefined" -> FALSE
    [] v.t = "null" -> FALSE
    [] v.t = "NaN" -> FALSE
    [] v.t = "number" -> v.num # 0
    [] v.t = "string" -> v.str # ""
    [] v.t = "boolean" -> v.bool
    [] OTHER -> TRUE

\* a || b
Or(a, b) == IF Truthy(a) THEN a ELSE b

\* Property read analysis.key: a TypeError on null and undefined, the own
\* field of an object, undefined on every other value (numbers, strings,
\* booleans and arrays have no property of these names).
CanRead(v) == v.t \notin {"null", "undefined"}
Get(v, key) ==
  IF v.t = "object" /\ key \in DOMAIN v.obj THEN v.obj[key] ELSE Undefined

\* Decimal literals among the strings of the model, with the number each
\* denotes (StringToNumber; any other string is not a numeric literal).
DecimalLiterals ==
  [s \in {"50", "150", "-5", ""} |->
     CASE s = "50" -> 50 [] s = "150" -> 150 [] s = "-5" -> 0 - 5 [] s = "" -> 0]

RECURSIVE ToNumber(_)
\* ToNumber: an array converts through its string form, which is the empty
\* string for [], the element's own string for a one-element array and a
\* comma-separated list (not a numeric literal) for a longer one.
ToNumber(v) ==
  CASE v.t = "number" -> v
    [] v.t = "NaN" -> NaN
    [] v.t = "undefined" -> NaN
    [] v.t = "null" -> Int_(0)
    [] v.t = "boolean" -> IF v.bool THEN Int_(1) ELSE Int_(0)
    [] v.t = "string" ->
         IF v.str \in DOMAIN DecimalLiterals
           THEN Int_(DecimalLiterals[v.str]) ELSE NaN
    [] v.t = "array" ->
         IF Len(v.arr) = 0 THEN Int_(0)
         ELSE IF Len(v.arr) = 1
           THEN (IF v.arr[1].t \in {"null", "undefined"} THEN Int_(0)
                 ELSE IF v.arr[1].t \in {"number", "string", "array"}
                   THEN ToNumber(v.arr[1])
                 ELSE NaN)
         ELSE NaN
    [] OTHER -> NaN

\* a < b on numbers num/den with positive denominators
Less(a, b) == a.num * b.den < b.num * a.den

\* Math.max(a, b) and Math.min(a, b): NaN if either argument converts to NaN
MathMax(a, b) ==
  LET x == ToNumber(a) y == ToNumber(b)
  IN IF x.t = "NaN" \/ y.t = "NaN" THEN NaN
     ELSE IF Less(x, y) THEN y ELSE x

MathMin(a, b) ==
  LET x == ToNumber(a) y == ToNumber(b)
  IN IF x.t = "NaN" \/ y.t = "NaN" THEN NaN
     ELSE IF Less(y, x) THEN y ELSE x

(***************************************************************************)
(* JSON text of the completion: a sequence of tokens.  A token is a        *)
(* punctuation mark, a literal (string, number, true, false, null) or a    *)
(* run of text that is not JSON at all.                                    *)
(***************************************************************************)
P(s) == [p |-> s]
Lit(v) == [lit |-> v]
Junk(s) == [junk |-> s]
IsP(tok, s) == "p" \in DOMAIN tok /\ tok.p = s
IsLit(tok) == "lit" \in DOMAIN tok

SyntaxError == [ok |-> FALSE]
Parsed(v, j) == [ok |-> TRUE, val |-> v, next |-> j]

\* o with o[key] = v, a later duplicate key replacing an earlier one
SetField(o, key, v) ==
  [k \in (DOMAIN o) \cup {key} |-> IF k = key THEN v ELSE o[k]]

RECURSIVE ParseValue(_, _), ParseElements(_, _, _), ParseMembers(_, _, _)
\* One JSON value starting at token i
ParseValue(toks, i) ==
  IF i > Len(toks) THEN SyntaxError
  ELSE IF IsLit(toks[i]) THEN Parsed(toks[i].lit, i + 1)
  ELSE IF IsP(toks[i], "[") THEN
    (IF i + 1 <= Len(toks) /\ IsP(toks[i + 1], "]")
       THEN Parsed(Arr(<<>>), i + 2)
       ELSE ParseElements(toks, i + 1, <<>>))
  ELSE IF IsP(toks[i], "{") THEN
    (IF i + 1 <= Len(toks) /\ IsP(toks[i + 1], "}")
       THEN Parsed(Obj(NoFields), i + 2)
       ELSE ParseMembers(toks, i + 1, NoFields))
  ELSE SyntaxError

\* The elements of an array after "[" or ",", acc being those read so far
ParseElements(toks, i, acc) ==
  LET r == ParseValue(toks, i)
  IN IF ~r.ok THEN SyntaxError
     ELSE IF r.next > Len(toks) THEN SyntaxError
     ELSE IF IsP(toks[r.next], "]")
       THEN Parsed(Arr(Append(acc, r.val)), r.next + 1)
     ELSE IF IsP(toks[r.next], ",")
       THEN ParseElements(toks, r.next + 1, Append(acc, r.val))
     ELSE SyntaxError

\* The members of an object after "{" or ",", acc being those read so far
ParseMembers(toks, i, acc) ==
  IF i + 1 > Len(toks) THEN SyntaxError
  ELSE IF ~(IsLit(toks[i]) /\ toks[i].lit.t = "string") THEN SyntaxError
  ELSE IF ~IsP(toks[i + 1], ":") THEN SyntaxError
  ELSE
    LET r == ParseValue(toks, i + 2)
    IN IF ~r.ok THEN SyntaxError
       ELSE IF r.next > Len(toks) THEN SyntaxError
       ELSE IF IsP(toks[r.next], "}")
         THEN Parsed(Obj(SetField(acc, toks[i].lit.str, r.val)), r.next + 1)
       ELSE IF IsP(toks[r.next], ",")
         THEN ParseMembers(toks, r.next + 1,
                           SetField(acc, toks[i].lit.str, r.val))
       ELSE SyntaxError

\* JSON.parse: one value and nothing after it, or a SyntaxError
JSONparse(toks) ==
  LET r == ParseValue(toks, 1)
  IN IF r.ok /\ r.next = Len(toks) + 1 THEN r ELSE SyntaxError

\* The keys of an object's field table in some fixed order
RECURSIVE KeySeq(_)
KeySeq(S) ==
  IF S = {} THEN <<>>
  ELSE LET k == CHOOSE x \in S : TRUE IN <<k>> \o KeySeq(S \ {k})

RECURSIVE Stringify(_), StringifyElements(_, _), StringifyMembers(_, _)
\* JSON.stringify of a value that is not undefined: NaN is written as null
Stringify(v) ==
  CASE v.t = "NaN" -> <<Lit(Null)>>
    [] v.t = "array" -> <<P("[")>> \o StringifyElements(v.arr, 1) \o <<P("]")>>
    [] v.t = "object" ->
         <<P("{")>> \o StringifyMembers(v.obj, KeySeq(DOMAIN v.obj))
                    \o <<P("}")>>
    [] OTHER -> <<Lit(v)>>

StringifyElements(a, i) ==
  IF i > Len(a) THEN <<>>
  ELSE Stringify(a[i]) \o (IF i < Len(a) THEN <<P(",")>> ELSE <<>>)
       \o StringifyElements(a, i + 1)

StringifyMembers(o, keys) ==
  IF keys = <<>> THEN <<>>
  ELSE <<Lit(Str(Head(keys))), P(":")>> \o Stringify(o[Head(keys)])
       \o (IF Len(keys) > 1 THEN <<P(",")>> ELSE <<>>)
       \o StringifyMembers(o, Tail(keys))

(***************************************************************************)
(* Errors.  A message is a sequence of fragments; includes(fragment) is    *)
(* true when the fragment occurs in the message.                           *)
(***************************************************************************)
Error(message) == [isError |-> TRUE, message |-> message]
includes(message, fragment) == \E i \in 1..Len(message) : message[i] = fragment

Threw(e) == [threw |-> TRUE, error |-> e]
Returned(v) == [threw |-> FALSE, val |-> v]

(***************************************************************************)
(* Text: sequences of one-character strings                                *)
(***************************************************************************)
IsWhiteSpace(c) == c \in {" ", "\n", "\t"}

RECURSIVE SkipLeft(_, _), SkipRight(_, _)
SkipLeft(s, i) ==
  IF i > Len(s) THEN i
  ELSE IF IsWhiteSpace(s[i]) THEN SkipLeft(s, i + 1) ELSE i

SkipRight(s, j) ==
  IF j < 1 THEN j
  ELSE IF IsWhiteSpace(s[j]) THEN SkipRight(s, j - 1) ELSE j

\* String.prototype.trim
trim(s) == SubSeq(s, SkipLeft(s, 1), SkipRight(s, Len(s)))

\* s.substring(from, to) for 0 <= from <= to
substring(s, from, to) ==
  SubSeq(s, from + 1, IF to < Len(s) THEN to ELSE Len(s))

RECURSIVE join_NoSeparator(_, _)
\* A join that drops the separator
join_NoSeparator(items, sep) ==
  IF Len(items) = 0 THEN <<>>
  ELSE items[1] \o join_NoSeparator(Tail(items), sep)

RECURSIVE join(_, _)
\* Array.prototype.join of a sequence of texts
join(items, sep) ==
  IF Len(items) = 0 THEN <<>>
  ELSE IF Len(items) = 1 THEN items[1]
  ELSE items[1] \o sep \o join(Tail(items), sep)

(***************************************************************************)
(* analyzeContent                                                          *)
(***************************************************************************)
CannedSuggestions ==
  Arr(<<Str("Add more engaging questions to increase comments"),
        Str("Include relevant hashtags to improve discoverability"),
        Str("Use more visual content to boost engagement"),
        Str("Post during peak hours for better reach")>>)

DefaultTopics == Arr(<<Str("Content"), Str("Social Media")>>)

DefaultScore == 75

\* The fallback analysis of the catch block
FallbackAnalysis ==
  Obj([engagementScore |-> Int_(DefaultScore),
       sentiment |-> Str("neutral"),
       suggestions |-> CannedSuggestions,
       keyTopics |-> DefaultTopics])

\* The content of a message: a string holding the tokens of its text
Content(toks) == [t |-> "string", text |-> toks]
HasContent(c) == c.t = "string" /\ c.text # <<>>

\* completion.choices[0]?.message?.content
responseContent(completion) ==
  IF "choices" \notin DOMAIN completion
    THEN Threw(Error(<<"Cannot read properties of undefined">>))
  ELSE IF Len(completion.choices) = 0 THEN Returned(Undefined)
  ELSE IF "message" \notin DOMAIN completion.choices[1]
    THEN Returned(Undefined)
  ELSE Returned(completion.choices[1].message.content)

\* The object returned after a successful parse
BuildAnalysis(analysis) ==
  Obj([engagementScore |->
         MathMin(Int_(100),
                 MathMax(Int_(0),
                         Or(Get(analysis, "engagementScore"),
                            Int_(DefaultScore)))),
       sentiment |-> Or(Get(analysis, "sentiment"), Str("neutral")),
       suggestions |-> Or(Get(analysis, "suggestions"), CannedSuggestions),
       keyTopics |-> Or(Get(analysis, "keyTopics"), DefaultTopics)])

\* The try block from the completion's arrival on: what it returns or throws
TryAnalysis(completion) ==
  LET rc == responseContent(completion)
  IN IF rc.threw THEN rc
     ELSE IF ~HasContent(rc.val)
       THEN Threw(Error(<<"No response from AI analysis">>))
     ELSE
       LET parsed == JSONparse(rc.val.text)
       IN IF ~parsed.ok THEN Threw(Error(<<"Unexpected token in JSON">>))
          ELSE IF ~CanRead(parsed.val)
            THEN Threw(Error(<<"Cannot read properties of null">>))
          ELSE Returned(BuildAnalysis(parsed.val))

\* A catch block that throws the error on instead of returning the fallback
CatchAnalysis_Rethrow(error) == Threw(error)

\* The catch block: whatever was thrown, the fallback is returned
CatchAnalysis(error) == Returned(FallbackAnalysis)

\* analyzeContent with a try block that does not cover the completion call
analyzeContent_NoCatch(outcome) ==
  IF outcome.threw THEN outcome
  ELSE LET res == TryAnalysis(outcome.val)
       IN IF res.threw THEN CatchAnalysis(res.error) ELSE res

\* analyzeContent from the await of the completion on; outcome is what
\* zai.chat.completions.create did
analyzeContent(outcome) ==
  IF outcome.threw THEN CatchAnalysis(outcome.error)
  ELSE LET res == TryAnalysis(outcome.val)
       IN IF res.threw THEN CatchAnalysis(res.error) ELSE res

(***************************************************************************)
(* POST: validation, responses and the top-level catch                     *)
(***************************************************************************)
allowedTypes ==
  {"application/pdf", "image/png", "image/jpeg", "image/jpg", "image/tiff",
   "image/bmp"}

\* A limit of ten decimal megabytes
maxSize_Decimal == 10 * 1000 * 1000

maxSize == 10 * 1024 * 1024

MinTextLength == 10

PreviewLength == 1000

File(name, type, size) ==
  [t |-> "file", name |-> name, type |-> type, size |-> size]

\* allowedTypes.includes(file.type); file.type is undefined on a form value
\* that is not a File
allowedTypesIncludes(file) == file.t = "file" /\ file.type \in allowedTypes

\* NextResponse.json(body, { status })
NextResponseJson(body, status) == [status |-> status, body |-> body]

\* An error body that carries a second field
ErrorResponse_Detailed(message, status) ==
  NextResponseJson([error |-> message, details |-> "stack"], status)

ErrorResponse(message, status) ==
  NextResponseJson([error |-> message], status)

\* The checks with the size looked at before the type
Validate_SizeFirst(file) ==
  IF ~Truthy(file) THEN "No file provided"
  ELSE IF file.t = "file" /\ file.size > maxSize
    THEN "File too large. Please upload files smaller than 10MB."
  ELSE IF ~allowedTypesIncludes(file)
    THEN "Unsupported file type. Please upload PDF or image files."
  ELSE "ok"

\* The checks of the form value in the order of the code; "ok" when all pass
Validate(file) ==
  IF ~Truthy(file) THEN "No file provided"
  ELSE IF ~allowedTypesIncludes(file)
    THEN "Unsupported file type. Please upload PDF or image files."
  ELSE IF file.size > maxSize
    THEN "File too large. Please upload files smaller than 10MB."
  ELSE "ok"

\* A catch block that always answers with the generic message
errorMessage_Generic(error) == "Failed to process file. Please try again."

\* A catch block that looks for the timeout before the full disk
errorMessage_TimeoutFirst(error) ==
  IF ~error.isError THEN "Failed to process file. Please try again."
  ELSE IF includes(error.message, "Failed to extract text from PDF")
    THEN "Unable to read PDF content. The file may be corrupted or password-protected."
  ELSE IF includes(error.message, "Failed to extract text from image")
    THEN "Unable to extract text from image. Please ensure the image contains readable text."
  ELSE IF includes(error.message, "No response from AI analysis")
    THEN "AI analysis service temporarily unavailable. Please try again later."
  ELSE IF includes(error.message, "ETIMEDOUT")
    THEN "Request timed out. Please try again with a smaller file."
  ELSE IF includes(error.message, "ENOSPC")
    THEN "Server storage full. Please try again later."
  ELSE "Failed to process file. Please try again."

\* The message chosen by the catch block of POST
errorMessage(error) ==
  IF ~error.isError THEN "Failed to process file. Please try again."
  ELSE IF includes(error.message, "Failed to extract text from PDF")
    THEN "Unable to read PDF content. The file may be corrupted or password-protected."
  ELSE IF includes(error.message, "Failed to extract text from image")
    THEN "Unable to extract text from image. Please ensure the image contains readable text."
  ELSE IF includes(error.message, "No response from AI analysis")
    THEN "AI analysis service temporarily unavailable. Please try again later."
  ELSE IF includes(error.message, "ENOSPC")
    THEN "Server storage full. Please try again later."
  ELSE IF includes(error.message, "ETIMEDOUT")
    THEN "Request timed out. Please try again with a smaller file."
  ELSE "Failed to process file. Please try again."

CatchStatus == 500

\* The catch block of POST
CatchPOST(error) == ErrorResponse(errorMessage(error), CatchStatus)

Ellipsis == <<".", ".", ".">>

\* A preview that adds the marker from 1000 characters on
Preview_AtLeast(text) ==
  substring(text, 0, PreviewLength)
    \o (IF Len(text) >= PreviewLength THEN Ellipsis ELSE <<>>)

\* extractedText.substring(0, 1000) + (extractedText.length > 1000 ? '...' : '')
Preview(text) ==
  substring(text, 0, PreviewLength)
    \o (IF Len(text) > PreviewLength THEN Ellipsis ELSE <<>>)

\* The success response; the analysis is what its JSON text reads back as
SuccessResponse(file, text, analysis) ==
  NextResponseJson(
    [success |-> TRUE,
     fileName |-> file.name,
     fileSize |-> file.size,
     fileType |-> file.type,
     extractedText |-> Preview(text),
     analysis |-> JSONparse(Stringify(analysis)).val,
     textLength |-> Len(text)],
    200)

\* The error thrown by the catch block of each extractor
PdfError == Error(<<"Failed to extract text from PDF">>)
ImageError == Error(<<"Failed to extract text from image">>)

\* A check that also rejects a text of exactly 10 characters
NoReadableText_AtMost(text) == Len(text) = 0 \/ Len(text) <= MinTextLength

\* !extractedText || extractedText.length < 10, on the trimmed text
NoReadableText(text) == Len(text) = 0 \/ Len(text) < MinTextLength

(***************************************************************************)
(* Inputs: what the client sends and what the collaborators answer         *)
(***************************************************************************)
\* How far past a threshold (size limit, preview length) the inputs go
MaxOver == 1

\* Number of requests of the model
NumRequests == 2
Requests == 1..NumRequests

FileNames == {"post.pdf", "report.docx"}
FileTypes ==
  {"application/pdf", "image/png", "image/jpeg", "image/jpg", "image/tiff",
   "image/bmp", "text/plain", ""}
FileSizes == {2048, 12582912} \cup {10485760 + k : k \in 0..MaxOver}

Files ==
  {File(n, ty, sz) : n \in FileNames, ty \in FileTypes, sz \in FileSizes}

\* formData.get('file'): null, a string field, or a File
FormValues == {Null, Str(""), Str("see attachment")} \cup Files

\* Values thrown by the platform under formData() and arrayBuffer()
ThrownValues ==
  {Error(<<"Failed to parse body as FormData.">>),
   Error(<<"write ", "ENOSPC", ": no space left on device">>),
   Error(<<"read ", "ETIMEDOUT">>),
   Error(<<"ETIMEDOUT", " after ", "ENOSPC">>),
   Error(<<"No response from AI analysis", " (", "ETIMEDOUT", ")">>),
   Error(<<"Failed to extract text from image", ": ",
           "Failed to extract text from PDF">>),
   [isError |-> FALSE, message |-> <<"ENOSPC">>]}

Pattern == <<"H", "e", "l", "l", "o", " ", "w", "o", "r", "l", "d", ",", " ">>

\* A text of n characters that neither starts nor ends with white space
Words(n) ==
  [i \in 1..n |-> IF i = n THEN "." ELSE Pattern[((i - 1) % Len(Pattern)) + 1]]

HelloWorld == SubSeq(Pattern, 1, 11)

TextLengths == {0, 9, 10} \cup {1000 + k : k \in 0..MaxOver}

\* What worker.recognize can return
OcrTexts ==
  {Words(n) : n \in TextLengths}
    \cup {<<" ", "\n">> \o Words(n) \o <<"\n">> : n \in TextLengths}

Page(items) == [ok |-> TRUE, items |-> items]
BadPage == [ok |-> FALSE, items |-> <<>>]

\* The documents getDocument can load: a sequence of pages, each with its
\* text items, or a page that getPage or getTextContent fails on
PdfDocuments ==
  {<<>>,
   <<Page(<<HelloWorld>>)>>,
   <<Page(<<<<"H", "i">>>>), Page(<<<<"y", "o", "u">>, <<"a", "l", "l">>>>)>>,
   <<Page(<<<<"H", "i">>>>), Page(<<>>), Page(<<<<"t", "h", "e", "r", "e">>>>)>>,
   <<Page(<<<<" ">>, <<"\t">>>>)>>,
   <<Page(<<Words(1000)>>)>>,
   <<Page(<<Words(600), Words(398)>>), Page(<<<<"!">>>>)>>,
   <<BadPage>>,
   <<Page(<<HelloWorld>>), BadPage, Page(<<HelloWorld>>)>>}

Fetched == Error(<<"fetch failed">>)

\* A well-formed analysis as the service is asked to give it
GoodFields ==
  [engagementScore |-> Int_(85),
   sentiment |-> Str("positive"),
   suggestions |-> Arr(<<Str("Ask a question"), Str("Add a hashtag")>>),
   keyTopics |-> Arr(<<Str("Launch")>>)]

ScoreValues ==
  {Int_(0), Int_(100), Int_(-5), Int_(150), Num(101, 2), Str("high"),
   Str("50"), Str(""), Null, Bool(TRUE), Bool(FALSE), Arr(<<>>),
   Arr(<<Int_(150)>>), Obj(NoFields)}

SentimentValues ==
  {Str("neutral"), Str("negative"), Str("mixed"), Str(""), Null, Int_(1),
   Arr(<<Str("positive")>>)}

ListValues ==
  {Arr(<<>>), Arr(<<Int_(1)>>), Str("none"), Null, Int_(0), Obj(NoFields)}

Keys == {"engagementScore", "sentiment", "suggestions", "keyTopics"}

\* GoodFields without key
Without(key) == [k \in Keys \ {key} |-> GoodFields[k]]

\* The JSON values the service may answer with: the good analysis, the good
\* analysis with one field changed or missing or one field added, and
\* values that are not objects
ServiceValues ==
  {Obj(GoodFields), Obj(NoFields), Obj(SetField(GoodFields, "language", Str("en")))}
    \cup {Obj(Without(k)) : k \in Keys}
    \cup {Obj(SetField(GoodFields, "engagementScore", v)) : v \in ScoreValues}
    \cup {Obj(SetField(GoodFields, "sentiment", v)) : v \in SentimentValues}
    \cup {Obj(SetField(GoodFields, "suggestions", v)) : v \in ListValues}
    \cup {Obj(SetField(GoodFields, "keyTopics", v)) : v \in ListValues}
    \cup {Null, Int_(42), Str("great post"), Bool(TRUE), Arr(<<Obj(GoodFields)>>)}

GoodText == Stringify(Obj(GoodFields))

\* Texts that are not JSON: a preface, a markup wrapper, a trailing remark, a
\* text cut short, a duplicated comma
Unparseable ==
  {<<Junk("Here is the analysis:")>> \o GoodText,
   <<Junk("<json>")>> \o GoodText \o <<Junk("</json>")>>,
   GoodText \o <<Junk("Hope this helps!")>>,
   SubSeq(GoodText, 1, Len(GoodText) - 1),
   <<P("{"), Lit(Str("engagementScore")), P(":"), Lit(Int_(85)), P(","), P("}")>>}

Choice(c) == [message |-> [content |-> c]]

\* What zai.chat.completions.create can return
Completions ==
  {[id |-> "chatcmpl"], [choices |-> <<>>], [choices |-> <<[index |-> 0]>>],
   [choices |-> <<Choice(Null)>>], [choices |-> <<Choice(Content(<<>>))>>]}
    \cup {[choices |-> <<Choice(Content(Stringify(v)))>>] : v \in ServiceValues}
    \cup {[choices |-> <<Choice(Content(c))>>] : c \in Unparseable}

\* Number of files the page is given
MaxUploads == 2
UploadIds == 1..MaxUploads

\* A processFile call that has not been made
NotStarted == [pc |-> "idle", progress |-> 0, ok |-> FALSE, result |-> Null]

(***************************************************************************)
(* The state of the requests                                               *)
(***************************************************************************)
VARIABLES
  pc,             \* the await each request is suspended at, or "done"
  file,           \* the form value read from the request
  pdf,            \* the document loaded by getDocument
  pageNo,         \* the loop variable i of extractTextFromPDF
  extractedText,  \* extractedText of the extractor, then of POST
  calls,          \* the collaborator calls made so far, with their outcomes
  response,       \* the responses sent (NextResponse.json results returned)
  uploads,        \* the uploads state of the page: the list of FileUpload
  proc,           \* each processFile call: its await, loop variable, response
  removed         \* the ids removeUpload was called with

serverVars == <<pc, file, pdf, pageNo, extractedText, calls, response>>
uiVars == <<uploads, proc, removed>>
vars == <<pc, file, pdf, pageNo, extractedText, calls, response, uploads, proc,
          removed>>

Call(fn, out) == [fn |-> fn, out |-> out]

Init ==
  /\ pc = [r \in Requests |-> "formData"]
  /\ file = [r \in Requests |-> Null]
  /\ pdf = [r \in Requests |-> <<>>]
  /\ pageNo = [r \in Requests |-> 0]
  /\ extractedText = [r \in Requests |-> <<>>]
  /\ calls = [r \in Requests |-> <<>>]
  /\ response = [r \in Requests |-> <<>>]
  /\ uploads = <<>>
  /\ proc = [i \in UploadIds |-> NotStarted]
  /\ removed = {}

\* POST returns resp
Respond(r, resp) ==
  /\ response' = [response EXCEPT ![r] = Append(@, resp)]
  /\ pc' = [pc EXCEPT ![r] = "done"]

\* const formData = await request.formData(), then the validation checks up
\* to the await of file.arrayBuffer()
FormData(r, outcome) ==
  /\ pc[r] = "formData"
  /\ UNCHANGED uiVars
  /\ calls' = [calls EXCEPT ![r] = Append(@, Call("formData", outcome))]
  /\ UNCHANGED <<pdf, pageNo, extractedText>>
  /\ IF outcome.threw
       THEN /\ Respond(r, CatchPOST(outcome.error))
            /\ UNCHANGED file
       ELSE /\ file' = [file EXCEPT ![r] = outcome.val]
            /\ IF Validate(outcome.val) # "ok"
                 THEN Respond(r, ErrorResponse(Validate(outcome.val), 400))
                 ELSE /\ pc' = [pc EXCEPT ![r] = "arrayBuffer"]
                      /\ UNCHANGED response

\* const bytes = await file.arrayBuffer(), then the dispatch on file.type
ArrayBuffer(r, outcome) ==
  /\ pc[r] = "arrayBuffer"
  /\ UNCHANGED uiVars
  /\ calls' = [calls EXCEPT ![r] = Append(@, Call("arrayBuffer", outcome))]
  /\ UNCHANGED <<file, pdf, pageNo, extractedText>>
  /\ IF outcome.threw
       THEN Respond(r, CatchPOST(outcome.error))
       ELSE /\ pc' = [pc EXCEPT ![r] =
                        IF file[r].type = "application/pdf"
                          THEN "getDocument" ELSE "createWorker"]
            /\ UNCHANGED response

\* A handler that keeps the text in a variable of the module, one for all
\* requests
AfterExtraction_Shared(r, text) ==
  LET cleaned == trim(text)
  IN /\ extractedText' = [q \in Requests |-> cleaned]
     /\ IF NoReadableText(cleaned)
          THEN Respond(r, ErrorResponse(
                 "No readable text found in the file. Please ensure the file contains text content.",
                 400))
          ELSE /\ pc' = [pc EXCEPT ![r] = "ZAI.create"]
               /\ UNCHANGED response

\* POST from the return of the extractor to the await inside analyzeContent:
\* trim, the readable-text check, the call of analyzeContent
AfterExtraction(r, text) ==
  LET cleaned == trim(text)
  IN /\ extractedText' = [extractedText EXCEPT ![r] = cleaned]
     /\ IF NoReadableText(cleaned)
          THEN Respond(r, ErrorResponse(
                 "No readable text found in the file. Please ensure the file contains text content.",
                 400))
          ELSE /\ pc' = [pc EXCEPT ![r] = "ZAI.create"]
               /\ UNCHANGED response

\* An extractor whose failure is handed to the OCR engine
GetDocument_FallbackToOcr(r, outcome) ==
  /\ pc[r] = "getDocument"
  /\ UNCHANGED uiVars
  /\ calls' = [calls EXCEPT ![r] = Append(@, Call("getDocument", outcome))]
  /\ UNCHANGED file
  /\ IF outcome.threw
       THEN /\ pc' = [pc EXCEPT ![r] = "createWorker"]
            /\ UNCHANGED <<pdf, pageNo, extractedText, response>>
       ELSE /\ pdf' = [pdf EXCEPT ![r] = outcome.val]
            /\ pageNo' = [pageNo EXCEPT ![r] = 1]
            /\ IF Len(outcome.val) = 0
                 THEN AfterExtraction(r, trim(<<>>))
                 ELSE /\ pc' = [pc EXCEPT ![r] = "getPage"]
                      /\ extractedText' = [extractedText EXCEPT ![r] = <<>>]
                      /\ UNCHANGED response

\* extractTextFromPDF up to the loop: the import of PDF.js and
\* await loadingTask.promise
GetDocument(r, outcome) ==
  /\ pc[r] = "getDocument"
  /\ UNCHANGED uiVars
  /\ calls' = [calls EXCEPT ![r] = Append(@, Call("getDocument", outcome))]
  /\ UNCHANGED file
  /\ IF outcome.threw
       THEN /\ Respond(r, CatchPOST(PdfError))
            /\ UNCHANGED <<pdf, pageNo, extractedText>>
       ELSE /\ pdf' = [pdf EXCEPT ![r] = outcome.val]
            /\ pageNo' = [pageNo EXCEPT ![r] = 1]
            /\ IF Len(outcome.val) = 0
                 THEN AfterExtraction(r, trim(<<>>))
                 ELSE /\ pc' = [pc EXCEPT ![r] = "getPage"]
                      /\ extractedText' = [extractedText EXCEPT ![r] = <<>>]
                      /\ UNCHANGED response

\* A page loop that, on a page it cannot read, returns the text read so far
GetPage_Partial(r) ==
  LET page == pdf[r][pageNo[r]]
      pageText == join(page.items, <<" ">>)
      text == extractedText[r] \o pageText \o <<"\n">>
  IN /\ pc[r] = "getPage"
     /\ UNCHANGED uiVars
     /\ calls' = [calls EXCEPT ![r] = Append(@, Call("getPage", pageNo[r]))]
     /\ UNCHANGED <<file, pdf>>
     /\ IF ~page.ok
          THEN /\ UNCHANGED pageNo
               /\ AfterExtraction(r, trim(extractedText[r]))
          ELSE /\ pageNo' = [pageNo EXCEPT ![r] = @ + 1]
               /\ IF pageNo[r] = Len(pdf[r])
                    THEN AfterExtraction(r, trim(text))
                    ELSE /\ extractedText' = [extractedText EXCEPT ![r] = text]
                         /\ UNCHANGED <<pc, response>>

\* One iteration of the page loop: getPage(i), getTextContent(), the join of
\* the items; after the last page the return of the trimmed text
GetPage(r) ==
  LET page == pdf[r][pageNo[r]]
      pageText == join(page.items, <<" ">>)
      text == extractedText[r] \o pageText \o <<"\n">>
  IN /\ pc[r] = "getPage"
     /\ UNCHANGED uiVars
     /\ calls' = [calls EXCEPT ![r] = Append(@, Call("getPage", pageNo[r]))]
     /\ UNCHANGED <<file, pdf>>
     /\ IF ~page.ok
          THEN /\ Respond(r, CatchPOST(PdfError))
               /\ UNCHANGED <<pageNo, extractedText>>
          ELSE /\ pageNo' = [pageNo EXCEPT ![r] = @ + 1]
               /\ IF pageNo[r] = Len(pdf[r])
                    THEN AfterExtraction(r, trim(text))
                    ELSE /\ extractedText' = [extractedText EXCEPT ![r] = text]
                         /\ UNCHANGED <<pc, response>>

\* extractTextFromImage up to the recognition: createWorker, loadLanguage,
\* initialize and recognize
Recognize(r, outcome) ==
  /\ pc[r] = "createWorker"
  /\ UNCHANGED uiVars
  /\ calls' = [calls EXCEPT ![r] = Append(@, Call("recognize", outcome))]
  /\ UNCHANGED <<file, pdf, pageNo>>
  /\ IF outcome.threw
       THEN /\ Respond(r, CatchPOST(ImageError))
            /\ UNCHANGED extractedText
       ELSE /\ extractedText' = [extractedText EXCEPT ![r] = outcome.val]
            /\ pc' = [pc EXCEPT ![r] = "terminate"]
            /\ UNCHANGED response

\* await worker.terminate(), then the return of the trimmed text
Terminate(r, outcome) ==
  /\ pc[r] = "terminate"
  /\ UNCHANGED uiVars
  /\ calls' = [calls EXCEPT ![r] = Append(@, Call("terminate", outcome))]
  /\ UNCHANGED <<file, pdf, pageNo>>
  /\ IF outcome.threw
       THEN /\ Respond(r, CatchPOST(ImageError))
            /\ UNCHANGED extractedText
       ELSE AfterExtraction(r, trim(extractedText[r]))

\* POST from the return of analyzeContent on
AfterAnalysis(r, res) ==
  IF res.threw
    THEN Respond(r, CatchPOST(res.error))
    ELSE Respond(r, SuccessResponse(file[r], extractedText[r], res.val))

\* analyzeContent up to the client: the import of the SDK and ZAI.create()
ZaiCreate(r, outcome) ==
  /\ pc[r] = "ZAI.create"
  /\ UNCHANGED uiVars
  /\ calls' = [calls EXCEPT ![r] = Append(@, Call("ZAI.create", outcome))]
  /\ UNCHANGED <<file, pdf, pageNo, extractedText>>
  /\ IF outcome.threw
       THEN AfterAnalysis(r, analyzeContent(outcome))
       ELSE /\ pc' = [pc EXCEPT ![r] = "completions.create"]
            /\ UNCHANGED response

\* await zai.chat.completions.create(...), the rest of analyzeContent and
\* the response of POST
Completion(r, outcome) ==
  /\ pc[r] = "completions.create"
  /\ UNCHANGED uiVars
  /\ calls' = [calls EXCEPT ![r] =
                 Append(@, Call("completions.create", outcome))]
  /\ UNCHANGED <<file, pdf, pageNo, extractedText>>
  /\ AfterAnalysis(r, analyzeContent(outcome))

Outcomes(values) == {Threw(e) : e \in {Fetched}} \cup {Returned(v) : v \in values}

\* One request on its own
Next ==
  \E r \in {1} :
    \/ \E o \in {Threw(e) : e \in ThrownValues}
              \cup {Returned(v) : v \in FormValues} : FormData(r, o)
    \/ \E o \in {Threw(e) : e \in ThrownValues} \cup {Returned(TRUE)} :
         ArrayBuffer(r, o)
    \/ \E o \in Outcomes(PdfDocuments) : GetDocument(r, o)
    \/ GetPage(r)
    \/ \E o \in Outcomes(OcrTexts) : Recognize(r, o)
    \/ \E o \in Outcomes({TRUE}) : Terminate(r, o)
    \/ \E o \in Outcomes({TRUE}) : ZaiCreate(r, o)
    \/ \E o \in Outcomes(Completions) : Completion(r, o)

Spec == Init /\ [][Next]_vars

(***************************************************************************)
(* Several requests in flight at once, each suspended at its own await     *)
(***************************************************************************)
ConcFormValues ==
  {Null, File("post.pdf", "application/pdf", 2048),
   File("report.docx", "image/png", 2048)}

ConcThrownValues == {Error(<<"read ", "ETIMEDOUT">>)}

ConcDocuments ==
  {<<Page(<<HelloWorld>>)>>,
   <<Page(<<HelloWorld>>), BadPage>>,
   <<Page(<<<<"H", "i">>>>), Page(<<<<"y", "o", "u">>, <<"a", "l", "l">>>>)>>}

ConcTexts == {Words(10), <<" ">> \o Words(9)}

ConcCompletions ==
  {[choices |-> <<>>],
   [choices |-> <<Choice(Content(GoodText))>>],
   [choices |-> <<Choice(Content(Stringify(
       Obj(SetField(GoodFields, "engagementScore", Str("high"))))))>>]}

NextConc ==
  \E r \in Requests :
    \/ \E o \in {Threw(e) : e \in ConcThrownValues}
              \cup {Returned(v) : v \in ConcFormValues} : FormData(r, o)
    \/ \E o \in {Threw(e) : e \in ConcThrownValues} \cup {Returned(TRUE)} :
         ArrayBuffer(r, o)
    \/ \E o \in Outcomes(ConcDocuments) : GetDocument(r, o)
    \/ GetPage(r)
    \/ \E o \in Outcomes(ConcTexts) : Recognize(r, o)
    \/ \E o \in Outcomes({TRUE}) : Terminate(r, o)
    \/ \E o \in Outcomes({TRUE}) : ZaiCreate(r, o)
    \/ \E o \in Outcomes(ConcCompletions) : Completion(r, o)

SpecConc == Init /\ [][NextConc]_vars

(***************************************************************************)
(* The page (src/app/page.tsx): onDrop, processFile, removeUpload.  The    *)
(* ids Math.random gives are taken to be distinct; they are numbered in    *)
(* the order the files are dropped.                                        *)
(***************************************************************************)
UploadStep == 10

ProcessStep == 20

FullProgress == 100

\* { ...u, ...changes }
Merge(u, changes) ==
  [k \in (DOMAIN u) \cup (DOMAIN changes) |->
     IF k \in DOMAIN changes THEN changes[k] ELSE u[k]]

\* An update that spreads the changes into every upload
setUploadsMap_All(prev, id, changes) ==
  [i \in 1..Len(prev) |-> Merge(prev[i], changes)]

\* setUploads(prev => prev.map(u => u.id === id ? { ...u, ...changes } : u))
setUploadsMap(prev, id, changes) ==
  [i \in 1..Len(prev) |->
     IF prev[i].id = id THEN Merge(prev[i], changes) ELSE prev[i]]

\* o.key, undefined when the object has no such field
Field(o, key) == IF key \in DOMAIN o THEN o[key] ELSE Undefined

\* What the user drops at once
DropBatches == {<<"post.pdf">>, <<"post.pdf", "scan.png">>}

\* What fetch resolves to (response.ok) and what response.json() gives
Responses == {[ok |-> TRUE], [ok |-> FALSE]}
Results ==
  {[success |-> TRUE, extractedText |-> Str("Hello world"),
    analysis |-> FallbackAnalysis]}
ErrorBodies == {[error |-> <<"No file provided">>], [message |-> <<"Bad Gateway">>]}
NetworkError == Error(<<"Failed to fetch">>)
BodyError == Error(<<"Unexpected token < in JSON">>)

Started == {i \in UploadIds : proc[i].pc # "idle"}

\* onDrop: the new uploads are appended and processFile is called for each,
\* which runs to its first await
OnDrop(acceptedFiles) ==
  LET n == Cardinality(Started)
      k == Len(acceptedFiles)
      newUploads ==
        [j \in 1..k |-> [file |-> acceptedFiles[j], id |-> n + j,
                         status |-> "uploading", progress |-> 0]]
  IN /\ n + k <= MaxUploads
     /\ uploads' = uploads \o newUploads
     /\ proc' = [i \in UploadIds |->
                   IF i \in (n + 1)..(n + k)
                     THEN [pc |-> "uploadTimer", progress |-> 0, ok |-> FALSE,
                           result |-> Null]
                     ELSE proc[i]]
     /\ UNCHANGED <<removed, serverVars>>

\* One iteration of the first loop; after the last one the status becomes
\* processing and fetch is called
UploadTick(id) ==
  LET p == proc[id].progress
      shown == setUploadsMap(uploads, id, [progress |-> p])
  IN /\ proc[id].pc = "uploadTimer"
     /\ UNCHANGED <<removed, serverVars>>
     /\ IF p + UploadStep <= FullProgress
          THEN /\ uploads' = shown
               /\ proc' = [proc EXCEPT ![id].progress = p + UploadStep]
          ELSE /\ uploads' = setUploadsMap(shown, id,
                               [status |-> "processing", progress |-> 0])
               /\ proc' = [proc EXCEPT ![id].pc = "fetch"]

\* The catch block of processFile
CatchProcessFile(id, error) ==
  /\ uploads' = setUploadsMap(uploads, id,
                  [status |-> "error",
                   error |-> IF error.isError THEN error.message
                             ELSE <<"Failed to process file. Please try again.">>])
  /\ proc' = [proc EXCEPT ![id].pc = "done"]

\* await fetch('/api/upload', ...)
Fetch(id, outcome) ==
  /\ proc[id].pc = "fetch"
  /\ UNCHANGED <<removed, serverVars>>
  /\ IF outcome.threw
       THEN CatchProcessFile(id, outcome.error)
       ELSE /\ proc' = [proc EXCEPT ![id].pc =
                          IF outcome.val.ok THEN "json" ELSE "errorJson",
                        ![id].ok = outcome.val.ok]
            /\ UNCHANGED uploads

\* const errorData = await response.json() of a response that is not ok,
\* and the throw of its message
ErrorJson(id, outcome) ==
  /\ proc[id].pc = "errorJson"
  /\ UNCHANGED <<removed, serverVars>>
  /\ IF outcome.threw
       THEN CatchProcessFile(id, outcome.error)
       ELSE CatchProcessFile(id,
              Error(IF "error" \in DOMAIN outcome.val /\ outcome.val.error # <<>>
                      THEN outcome.val.error
                      ELSE <<"Failed to process file">>))

\* const result = await response.json() of an ok response
Json(id, outcome) ==
  /\ proc[id].pc = "json"
  /\ UNCHANGED <<removed, serverVars>>
  /\ IF outcome.threw
       THEN CatchProcessFile(id, outcome.error)
       ELSE /\ proc' = [proc EXCEPT ![id].pc = "processTimer",
                                    ![id].progress = 0,
                                    ![id].result = outcome.val]
            /\ UNCHANGED uploads

\* One iteration of the second loop; after the last one the upload becomes
\* completed with the result
ProcessTick(id) ==
  LET p == proc[id].progress
      shown == setUploadsMap(uploads, id, [progress |-> p])
  IN /\ proc[id].pc = "processTimer"
     /\ UNCHANGED <<removed, serverVars>>
     /\ IF p + ProcessStep <= FullProgress
          THEN /\ uploads' = shown
               /\ proc' = [proc EXCEPT ![id].progress = p + ProcessStep]
          ELSE /\ uploads' = setUploadsMap(shown, id,
                               [status |-> "completed",
                                progress |-> 100,
                                extractedText |->
                                  Field(proc[id].result, "extractedText"),
                                analysis |-> Field(proc[id].result, "analysis")])
               /\ proc' = [proc EXCEPT ![id].pc = "done"]

\* removeUpload(id), for an upload of the list
RemoveUpload(id) ==
  /\ \E i \in 1..Len(uploads) : uploads[i].id = id
  /\ uploads' = SelectSeq(uploads, LAMBDA u : u.id # id)
  /\ removed' = removed \cup {id}
  /\ UNCHANGED <<proc, serverVars>>

NextUI ==
  \/ \E b \in DropBatches : OnDrop(b)
  \/ \E id \in UploadIds :
       \/ UploadTick(id)
       \/ \E o \in {Threw(NetworkError)} \cup {Returned(v) : v \in Responses} :
            Fetch(id, o)
       \/ \E o \in {Threw(BodyError)} \cup {Returned(v) : v \in ErrorBodies} :
            ErrorJson(id, o)
       \/ \E o \in {Threw(BodyError)} \cup {Returned(v) : v \in Results} :
            Json(id, o)
       \/ ProcessTick(id)
       \/ RemoveUpload(id)

SpecUI == Init /\ [][NextUI]_vars

(***************************************************************************)
(* Observations used by the properties                                     *)
(***************************************************************************)
Done(r) == pc[r] = "done"
Called(r, fn) == \E i \in 1..Len(calls[r]) : calls[r][i].fn = fn
OutcomeOf(r, fn) ==
  calls[r][CHOOSE i \in 1..Len(calls[r]) : calls[r][i].fn = fn].out
Reply(r) == response[r][1]

IsSuccess(resp) ==
  /\ resp.status = 200
  /\ "success" \in DOMAIN resp.body
  /\ resp.body.success = TRUE

IsError(resp, status, message) ==
  /\ resp.status = status
  /\ DOMAIN resp.body = {"error"}
  /\ resp.body.error = message

NoFileMessage == "No file provided"
UnsupportedMessage == "Unsupported file type. Please upload PDF or image files."
TooLargeMessage == "File too large. Please upload files smaller than 10MB."
NoTextMessage ==
  "No readable text found in the file. Please ensure the file contains text content."
PdfMessage ==
  "Unable to read PDF content. The file may be corrupted or password-protected."
ImageMessage ==
  "Unable to extract text from image. Please ensure the image contains readable text."

\* The request reached the analysis step: analyzeContent was called
ReachedAnalysis(r) == pc[r] = "ZAI.create" \/ Called(r, "ZAI.create")

\* The completion carries no text: no choices, no message, or a content
\* that is null or the empty string
EmptyContent(completion) ==
  \/ "choices" \notin DOMAIN completion
  \/ Len(completion.choices) = 0
  \/ "message" \notin DOMAIN completion.choices[1]
  \/ completion.choices[1].message.content.t # "string"
  \/ completion.choices[1].message.content.text = <<>>

\* The remote analysis failed: the SDK threw, the completion call threw, the
\* content is empty, or the content is one of the texts that are not JSON
RemoteFailed(r) ==
  \/ Called(r, "ZAI.create") /\ OutcomeOf(r, "ZAI.create").threw
  \/ /\ Called(r, "completions.create")
     /\ LET o == OutcomeOf(r, "completions.create")
        IN \/ o.threw
           \/ EmptyContent(o.val)
           \/ o.val.choices[1].message.content.text \in Unparseable

\* The fixed fallback analysis as the response shows it
C1_Fallback ==
  Obj([engagementScore |-> Num(75, 1),
       sentiment |-> Str("neutral"),
       suggestions |->
         Arr(<<Str("Add more engaging questions to increase comments"),
               Str("Include relevant hashtags to improve discoverability"),
               Str("Use more visual content to boost engagement"),
               Str("Post during peak hours for better reach")>>),
       keyTopics |-> Arr(<<Str("Content"), Str("Social Media")>>)])

\* C1: once extraction succeeded (analyzeContent was called), a remote
\* analysis that fails in any way (SDK throws, completion call throws, empty
\* content, content that is not JSON) still ends in the 200 success envelope
\* whose analysis is the fixed fallback.
C1_FallbackOnAnalysisFailure ==
  \A r \in Requests :
    (Done(r) /\ RemoteFailed(r)) =>
      /\ IsSuccess(Reply(r))
      /\ Reply(r).body.analysis = C1_Fallback
      /\ Len(extractedText[r]) >= 10

\* A finished request whose completion text was not JSON and one whose SDK
\* could not be created
C1_Witness ==
  \E r \in Requests :
    /\ Done(r)
    /\ Called(r, "completions.create")
    /\ ~OutcomeOf(r, "completions.create").threw
    /\ ~EmptyContent(OutcomeOf(r, "completions.create").val)
    /\ OutcomeOf(r, "completions.create").val.choices[1].message.content.text
         \in Unparseable
    /\ IsSuccess(Reply(r))

\* The extraction engine threw: the PDF parser (at load or on a page) or
\* the OCR engine (before or after recognition)
PdfThrew(r) ==
  \/ Called(r, "getDocument") /\ OutcomeOf(r, "getDocument").threw
  \/ \E i \in 1..Len(calls[r]) :
       /\ calls[r][i].fn = "getPage"
       /\ ~pdf[r][calls[r][i].out].ok

OcrThrew(r) ==
  \/ Called(r, "recognize") /\ OutcomeOf(r, "recognize").threw
  \/ Called(r, "terminate") /\ OutcomeOf(r, "terminate").threw

AnalysisOf(r) == Reply(r).body.analysis.obj

\* C3 (as stated): the engagementScore of every success response is a
\* number in [0,100], whatever the service put in the field.
C3_ScoreInRange ==
  \A r \in Requests :
    (Done(r) /\ IsSuccess(Reply(r))) =>
      LET score == AnalysisOf(r).engagementScore
      IN /\ score.t = "number"
         /\ 0 <= score.num
         /\ score.num <= 100 * score.den

C5_AcceptedTypes ==
  {"application/pdf", "image/png", "image/jpeg", "image/jpg", "image/tiff",
   "image/bmp"}

\* formData() returned, and this is the form value it gave
GotForm(r) == Called(r, "formData") /\ ~OutcomeOf(r, "formData").threw
FormValue(r) == OutcomeOf(r, "formData").val

\* C4: the checks run in the order missing file, type, size and only the
\* first failing one is reported: no file gives the missing-file error, a
\* disallowed type gives the unsupported-type error whatever the size, the
\* too-large error is given only for an allowed type, and a request that
\* fails a check makes no extraction or analysis call.
C4_ValidationOrder ==
  \A r \in Requests :
    GotForm(r) =>
      LET f == FormValue(r)
      IN /\ (f.t = "null" \/ (f.t = "string" /\ f.str = "")) =>
              Done(r) /\ IsError(Reply(r), 400, NoFileMessage)
         /\ (f.t = "file" /\ f.type \notin C5_AcceptedTypes) =>
              Done(r) /\ IsError(Reply(r), 400, UnsupportedMessage)
         /\ (Done(r) /\ IsError(Reply(r), 400, TooLargeMessage)) =>
              f.t = "file" /\ f.type \in C5_AcceptedTypes /\ f.size > 10485760
         /\ (Done(r) /\ Reply(r).status = 400
               /\ Reply(r).body.error
                    \in {NoFileMessage, UnsupportedMessage, TooLargeMessage}) =>
              Len(calls[r]) = 1

\* A file of a disallowed type that is also over the size limit, answered
\* with the unsupported-type error
C4_Witness ==
  \E r \in Requests :
    /\ GotForm(r)
    /\ FormValue(r).t = "file"
    /\ FormValue(r).type \notin C5_AcceptedTypes
    /\ FormValue(r).size > 10485760
    /\ Done(r)
    /\ IsError(Reply(r), 400, UnsupportedMessage)

\* The request passed validation
Validated(r) == pc[r] = "arrayBuffer" \/ Called(r, "arrayBuffer")

\* C5: validation passes exactly when the declared type is one of the six
\* accepted types and the size is at most 10485760 bytes; an accepted type
\* over the limit gets the too-large error and any other type the
\* unsupported-type error, both with status 400.
C5_ValidationPasses ==
  \A r \in Requests :
    (GotForm(r) /\ FormValue(r).t = "file") =>
      LET f == FormValue(r)
      IN /\ Validated(r) <=>
              (f.type \in C5_AcceptedTypes /\ f.size <= 10485760)
         /\ (f.type \in C5_AcceptedTypes /\ f.size >= 10485761) =>
              Done(r) /\ IsError(Reply(r), 400, TooLargeMessage)
         /\ f.type \notin C5_AcceptedTypes =>
              Done(r) /\ IsError(Reply(r), 400, UnsupportedMessage)

\* A file of exactly 10485760 bytes that passed validation
C5_Witness ==
  \E r \in Requests :
    /\ GotForm(r)
    /\ FormValue(r).t = "file"
    /\ FormValue(r).size = 10485760
    /\ Validated(r)

\* The extractor returned without throwing
OcrReturned(r) == Called(r, "terminate") /\ ~OutcomeOf(r, "terminate").threw
PdfReturned(r) ==
  /\ Called(r, "getDocument")
  /\ ~PdfThrew(r)
  /\ pageNo[r] > Len(pdf[r])
ExtractionReturned(r) == OcrReturned(r) \/ PdfReturned(r)

\* t is raw without its leading and trailing white space
IsTrimOf(t, raw) ==
  /\ Len(t) > 0 => ~IsWhiteSpace(t[1]) /\ ~IsWhiteSpace(t[Len(t)])
  /\ \E a \in 0..(Len(raw) - Len(t)) :
       /\ SubSeq(raw, a + 1, a + Len(t)) = t
       /\ \A i \in (1..a) \cup ((a + Len(t) + 1)..Len(raw)) :
            IsWhiteSpace(raw[i])

\* C6: when the extractor returns, the text POST keeps is the trimmed text;
\* with fewer than 10 characters the answer is 400 with the no-readable-text
\* message and analyzeContent is never called, with 10 or more the request
\* goes on to the analysis.
C6_ReadableTextCheck ==
  \A r \in Requests :
    ExtractionReturned(r) =>
      /\ OcrReturned(r) =>
           IsTrimOf(extractedText[r], OutcomeOf(r, "recognize").val)
      /\ Len(extractedText[r]) > 0 =>
           /\ ~IsWhiteSpace(extractedText[r][1])
           /\ ~IsWhiteSpace(extractedText[r][Len(extractedText[r])])
      /\ Len(extractedText[r]) < 10 =>
           /\ Done(r)
           /\ IsError(Reply(r), 400, NoTextMessage)
           /\ ~ReachedAnalysis(r)
      /\ Len(extractedText[r]) >= 10 => ReachedAnalysis(r)

\* An OCR result of 9 characters between white space, answered with the
\* no-readable-text error
C6_Witness ==
  \E r \in Requests :
    /\ OcrReturned(r)
    /\ Len(OutcomeOf(r, "recognize").val) >= 10
    /\ Len(extractedText[r]) = 9
    /\ Done(r)
    /\ IsError(Reply(r), 400, NoTextMessage)

\* C7: the preview of a success response is the whole trimmed text, without
\* a marker, when the text has at most 1000 characters, and its first 1000
\* characters followed by "..." when it has more.
C7_Preview ==
  \A r \in Requests :
    (Done(r) /\ IsSuccess(Reply(r))) =>
      LET text == extractedText[r]
          preview == Reply(r).body.extractedText
      IN /\ Len(text) <= 1000 => preview = text
         /\ Len(text) > 1000 =>
              /\ Len(preview) = 1003
              /\ \A i \in 1..1000 : preview[i] = text[i]
              /\ \A i \in 1001..1003 : preview[i] = "."

\* A success response for a text of more than 1000 characters
C7_Witness ==
  \E r \in Requests :
    /\ Done(r)
    /\ IsSuccess(Reply(r))
    /\ Len(extractedText[r]) > 1000
    /\ Len(Reply(r).body.extractedText) = 1003

\* The stage a collaborator call belongs to: 1 intake and validation,
\* 2 extraction, 3 analysis
StageOf(fn) ==
  CASE fn = "formData" -> 1
    [] fn \in {"arrayBuffer", "getDocument", "getPage", "recognize",
               "terminate"} -> 2
    [] fn \in {"ZAI.create", "completions.create"} -> 3

\* C8: each request goes through the stages in order and responds exactly
\* once, when it is done; a failure response comes from the validation or
\* the extraction stage only (the text check included), and a request that
\* reached the analysis stage ends with the success response.
C8_StateMachine ==
  \A r \in Requests :
    /\ Len(response[r]) = (IF Done(r) THEN 1 ELSE 0)
    /\ \A i \in 1..Len(calls[r]) : \A j \in i..Len(calls[r]) :
         StageOf(calls[r][i].fn) <= StageOf(calls[r][j].fn)
    /\ (Done(r) /\ ~IsSuccess(Reply(r))) =>
         /\ ~ReachedAnalysis(r)
         /\ Reply(r).status \in {400, 500}
    /\ (Done(r) /\ ReachedAnalysis(r)) => IsSuccess(Reply(r))
    /\ (Done(r) /\ IsSuccess(Reply(r))) =>
         /\ Called(r, "ZAI.create")
         /\ ExtractionReturned(r)
         /\ Validated(r)

\* A request that reached the analysis stage, whose completion call threw,
\* and that is done
C8_Witness ==
  \E r \in Requests :
    /\ Done(r)
    /\ Called(r, "completions.create")
    /\ OutcomeOf(r, "completions.create").threw
    /\ IsSuccess(Reply(r))

\* v is an array of strings
IsStringList(v) ==
  v.t = "array" /\ \A i \in 1..Len(v.arr) : v.arr[i].t = "string"

\* C9 (as stated): every analysis of a success response has its four fields
\* well-formed: an integer score in [0,100], a sentiment among positive,
\* neutral and negative, and suggestions and keyTopics that are lists of
\* strings, whatever JSON value the service returned.
C9_WellFormedAnalysis ==
  \A r \in Requests :
    (Done(r) /\ IsSuccess(Reply(r))) =>
      LET a == AnalysisOf(r)
      IN /\ DOMAIN a = {"engagementScore", "sentiment", "suggestions",
                        "keyTopics"}
         /\ a.engagementScore.t = "number"
         /\ a.engagementScore.num % a.engagementScore.den = 0
         /\ 0 <= a.engagementScore.num
         /\ a.engagementScore.num <= 100 * a.engagementScore.den
         /\ a.sentiment.t = "string"
         /\ a.sentiment.str \in {"positive", "neutral", "negative"}
         /\ IsStringList(a.suggestions)
         /\ IsStringList(a.keyTopics)

\* The completion's text is the JSON text of an object among the service
\* values, and this is that object's field table
SentObject(r) ==
  /\ Called(r, "completions.create")
  /\ ~OutcomeOf(r, "completions.create").threw
  /\ ~EmptyContent(OutcomeOf(r, "completions.create").val)
  /\ \E v \in ServiceValues :
       /\ v.t = "object"
       /\ Stringify(v) =
            OutcomeOf(r, "completions.create").val.choices[1].message.content.text
SentFields(r) ==
  (CHOOSE v \in ServiceValues :
     /\ v.t = "object"
     /\ Stringify(v) =
          OutcomeOf(r, "completions.create").val.choices[1].message.content.text).obj

\* The number n/d clamped to [0,100]
C10_Clamp(v) ==
  IF v.num < 0 THEN Num(0, 1)
  ELSE IF v.num > 100 * v.den THEN Num(100, 1) ELSE v

C10_Defaults == C1_Fallback.obj

\* C10 (as stated): when the service's text parses as an object, a missing
\* field takes its default and a present field keeps the service's value: a
\* present numeric score is returned clamped to [0,100] (0 stays 0), and a
\* present sentiment, suggestions or keyTopics value is returned as it is
\* (an empty list stays empty).
C10_Backfill ==
  \A r \in Requests :
    (Done(r) /\ SentObject(r)) =>
      LET sent == SentFields(r)
          a == AnalysisOf(r)
      IN /\ IsSuccess(Reply(r))
         /\ \A k \in Keys : k \notin DOMAIN sent => a[k] = C10_Defaults[k]
         /\ ("engagementScore" \in DOMAIN sent
               /\ sent.engagementScore.t = "number") =>
              a.engagementScore = C10_Clamp(sent.engagementScore)
         /\ \A k \in Keys \ {"engagementScore"} :
              (k \in DOMAIN sent /\ sent[k].t # "null") => a[k] = sent[k]

RECURSIVE C11_PageText(_), C11_DocumentText(_)
\* The items of a page in document order with one space between them
C11_PageText(items) ==
  IF Len(items) = 0 THEN <<>>
  ELSE IF Len(items) = 1 THEN items[1]
  ELSE items[1] \o <<" ">> \o C11_PageText(Tail(items))

\* The page texts in page order with one newline between them
C11_DocumentText(doc) ==
  IF Len(doc) = 0 THEN <<>>
  ELSE IF Len(doc) = 1 THEN C11_PageText(doc[1].items)
  ELSE C11_PageText(doc[1].items) \o <<"\n">> \o C11_DocumentText(Tail(doc))

\* The page numbers asked of getPage, in the order of the calls
PagesVisited(r) == SelectSeq(calls[r], LAMBDA c : c.fn = "getPage")

\* C11: when a PDF with pages 1..N is read without an error, the pages are
\* visited once each in the order 1..N and the text returned is the trimmed
\* text of the pages in page order, each page's items joined by one space
\* and the pages separated by a newline.
C11_PdfText ==
  \A r \in Requests :
    PdfReturned(r) =>
      /\ Len(PagesVisited(r)) = Len(pdf[r])
      /\ \A i \in 1..Len(pdf[r]) : PagesVisited(r)[i].out = i
      /\ IsTrimOf(extractedText[r], C11_DocumentText(pdf[r]))

\* A PDF of two pages or more, one of them with several items, read to the
\* end
C11_Witness ==
  \E r \in Requests :
    /\ PdfReturned(r)
    /\ Len(pdf[r]) >= 2
    /\ \E i \in 1..Len(pdf[r]) : Len(pdf[r][i].items) >= 2
    /\ Len(extractedText[r]) >= 10

\* C12: when the PDF parser fails on a page or the OCR engine fails at a
\* step, the request is answered with an error body that carries no
\* extractedText, no textLength and no analysis, and analyzeContent is never
\* called with the text read before the failure.
C12_AllOrNothing ==
  \A r \in Requests :
    (PdfThrew(r) \/ OcrThrew(r)) =>
      /\ Done(r)
      /\ Reply(r).status # 200
      /\ DOMAIN Reply(r).body = {"error"}
      /\ ~ReachedAnalysis(r)

\* A PDF whose first page was read, with text, and whose second page failed
C12_Witness ==
  \E r \in Requests :
    /\ PdfThrew(r)
    /\ Len(PagesVisited(r)) = 2
    /\ Len(extractedText[r]) >= 10
    /\ Done(r)
    /\ DOMAIN Reply(r).body = {"error"}

\* The request failed in one of the five kinds: missing file, unsupported
\* type, file too large, extraction failure, no readable text
MissingFile(r) ==
  GotForm(r) /\ (FormValue(r).t = "null"
                   \/ (FormValue(r).t = "string" /\ FormValue(r).str = ""))
UnsupportedType(r) ==
  /\ GotForm(r)
  /\ ~MissingFile(r)
  /\ ~(FormValue(r).t = "file" /\ FormValue(r).type \in C5_AcceptedTypes)
FileTooLarge(r) ==
  /\ GotForm(r)
  /\ FormValue(r).t = "file"
  /\ FormValue(r).type \in C5_AcceptedTypes
  /\ FormValue(r).size > 10485760
NoText(r) == ExtractionReturned(r) /\ Len(extractedText[r]) < 10
FailedInKind(r) ==
  \/ MissingFile(r) \/ UnsupportedType(r) \/ FileTooLarge(r)
  \/ PdfThrew(r) \/ OcrThrew(r) \/ NoText(r)

\* The fixed message of each kind
KindMessage(r) ==
  CASE MissingFile(r) -> NoFileMessage
    [] UnsupportedType(r) -> UnsupportedMessage
    [] FileTooLarge(r) -> TooLargeMessage
    [] PdfThrew(r) -> PdfMessage
    [] OcrThrew(r) -> ImageMessage
    [] NoText(r) -> NoTextMessage

\* C13 (as stated): every failure response carries a success flag equal to
\* false together with the one fixed message of its error kind.
C13_FailureHasSuccessFalse ==
  \A r \in Requests :
    FailedInKind(r) =>
      /\ Done(r)
      /\ "success" \in DOMAIN Reply(r).body
      /\ Reply(r).body.success = FALSE
      /\ Reply(r).body.error = KindMessage(r)

\* C13 (amended): every failure response has a body with the single field
\* error, holding the one fixed message of its error kind; it carries no
\* success flag, and its status is 400 or 500.
C13_FailureBody ==
  \A r \in Requests :
    FailedInKind(r) =>
      /\ Done(r)
      /\ DOMAIN Reply(r).body = {"error"}
      /\ Reply(r).body.error = KindMessage(r)
      /\ Reply(r).status \in {400, 500}

\* A file over the size limit answered with the too-large message alone
C13_Witness ==
  \E r \in Requests :
    /\ FileTooLarge(r)
    /\ Done(r)
    /\ DOMAIN Reply(r).body = {"error"}
    /\ Reply(r).body.error = TooLargeMessage

Count(r, fn) == Len(SelectSeq(calls[r], LAMBDA c : c.fn = fn))
Buffered(r) == Called(r, "arrayBuffer") /\ ~OutcomeOf(r, "arrayBuffer").threw
UsesPdf(r) == pc[r] = "getDocument" \/ Called(r, "getDocument")
UsesOcr(r) == pc[r] = "createWorker" \/ Called(r, "recognize")

\* C15: a validated upload is given to exactly one engine, once: the PDF
\* parser exactly when the declared type is application/pdf, the OCR engine
\* for every other accepted type, never both; an upload that did not pass
\* validation is given to none; and after an engine failed no further call
\* is made.
C15_OneEngine ==
  \A r \in Requests :
    /\ Count(r, "getDocument") <= 1
    /\ Count(r, "recognize") <= 1
    /\ Count(r, "terminate") <= 1
    /\ ~(UsesPdf(r) /\ UsesOcr(r))
    /\ Buffered(r) =>
         /\ UsesPdf(r) <=> file[r].type = "application/pdf"
         /\ UsesOcr(r) <=>
              file[r].type \in C5_AcceptedTypes \ {"application/pdf"}
         /\ UsesPdf(r) \/ UsesOcr(r)
    /\ ~Buffered(r) => ~UsesPdf(r) /\ ~UsesOcr(r)
    /\ (PdfThrew(r) \/ OcrThrew(r)) =>
         /\ Done(r)
         /\ calls[r][Len(calls[r])].fn
              \in {"getDocument", "getPage", "recognize", "terminate"}

\* A PDF upload whose document could not be loaded: three calls, the last
\* one getDocument
C15_Witness ==
  \E r \in Requests :
    /\ Called(r, "getDocument")
    /\ OutcomeOf(r, "getDocument").threw
    /\ Done(r)
    /\ Len(calls[r]) = 3

\* The value that reached the catch block of POST
Caught(r) ==
  \/ Called(r, "formData") /\ OutcomeOf(r, "formData").threw
  \/ Called(r, "arrayBuffer") /\ OutcomeOf(r, "arrayBuffer").threw
  \/ PdfThrew(r) \/ OcrThrew(r)
CaughtValue(r) ==
  IF OutcomeOf(r, "formData").threw THEN OutcomeOf(r, "formData").error
  ELSE IF OutcomeOf(r, "arrayBuffer").threw
    THEN OutcomeOf(r, "arrayBuffer").error
  ELSE IF PdfThrew(r)
    THEN [isError |-> TRUE, message |-> <<"Failed to extract text from PDF">>]
  ELSE [isError |-> TRUE, message |-> <<"Failed to extract text from image">>]

\* The substrings looked for, in order, each with its message
C16_Patterns ==
  <<<<"Failed to extract text from PDF", PdfMessage>>,
    <<"Failed to extract text from image", ImageMessage>>,
    <<"No response from AI analysis",
      "AI analysis service temporarily unavailable. Please try again later.">>,
    <<"ENOSPC", "Server storage full. Please try again later.">>,
    <<"ETIMEDOUT", "Request timed out. Please try again with a smaller file.">>>>

GenericMessage == "Failed to process file. Please try again."

C16_Expected(e) ==
  LET hits == {i \in 1..Len(C16_Patterns) :
                 \E j \in 1..Len(e.message) : e.message[j] = C16_Patterns[i][1]}
  IN IF ~e.isError \/ hits = {} THEN GenericMessage
     ELSE C16_Patterns[CHOOSE i \in hits : \A k \in hits : i <= k][2]

\* C16: whatever reaches the catch block of POST is answered with status 500
\* and one message: that of the first substring found in the error text in
\* the order PDF, image, AI, ENOSPC, ETIMEDOUT, and the generic message when
\* none is found or the value thrown is not an Error.
C16_CatchMessage ==
  \A r \in Requests :
    /\ (Done(r) /\ Caught(r)) =>
         IsError(Reply(r), 500, C16_Expected(CaughtValue(r)))
    /\ (Done(r) /\ Reply(r).status = 500) => Caught(r)

\* An error whose text holds both ETIMEDOUT and ENOSPC, answered with the
\* storage message
C16_Witness ==
  \E r \in Requests :
    /\ Done(r)
    /\ Called(r, "arrayBuffer")
    /\ OutcomeOf(r, "arrayBuffer").threw
    /\ OutcomeOf(r, "arrayBuffer").error.isError
    /\ \E j \in 1..Len(OutcomeOf(r, "arrayBuffer").error.message) :
         OutcomeOf(r, "arrayBuffer").error.message[j] = "ETIMEDOUT"
    /\ \E j \in 1..Len(OutcomeOf(r, "arrayBuffer").error.message) :
         OutcomeOf(r, "arrayBuffer").error.message[j] = "ENOSPC"
    /\ IsError(Reply(r), 500, "Server storage full. Please try again later.")

\* The response a request gets when it runs alone with the file and the
\* collaborator outcomes recorded for it
AloneAnalysis(r) ==
  IF OutcomeOf(r, "ZAI.create").threw
    THEN analyzeContent(OutcomeOf(r, "ZAI.create"))
    ELSE analyzeContent(OutcomeOf(r, "completions.create"))

AloneFinish(r, text) ==
  IF NoReadableText(text) THEN ErrorResponse(NoTextMessage, 400)
  ELSE SuccessResponse(FormValue(r), text, AloneAnalysis(r).val)

AloneResponse(r) ==
  LET fd == OutcomeOf(r, "formData")
  IN IF fd.threw THEN CatchPOST(fd.error)
     ELSE IF Validate(fd.val) # "ok" THEN ErrorResponse(Validate(fd.val), 400)
     ELSE IF OutcomeOf(r, "arrayBuffer").threw
       THEN CatchPOST(OutcomeOf(r, "arrayBuffer").error)
     ELSE IF fd.val.type = "application/pdf"
       THEN LET gd == OutcomeOf(r, "getDocument")
            IN IF gd.threw THEN CatchPOST(PdfError)
               ELSE IF \E i \in 1..Len(gd.val) : ~gd.val[i].ok
                 THEN CatchPOST(PdfError)
               ELSE AloneFinish(r, trim(C11_DocumentText(gd.val)))
     ELSE IF OutcomeOf(r, "recognize").threw THEN CatchPOST(ImageError)
     ELSE IF OutcomeOf(r, "terminate").threw THEN CatchPOST(ImageError)
     ELSE AloneFinish(r, trim(OutcomeOf(r, "recognize").val))

\* C14: with several requests in flight and their awaits interleaved in any
\* order, each request's response is the one it gets alone with the same
\* file and the same collaborator outcomes, and while a request waits for
\* its analysis the text it holds is its own.
C14_Independent ==
  \A r \in Requests :
    /\ Done(r) => response[r] = <<AloneResponse(r)>>
    /\ (ReachedAnalysis(r) /\ OcrReturned(r)) =>
         extractedText[r] = trim(OutcomeOf(r, "recognize").val)

\* One request done with a success while another, holding a different text,
\* still waits for its completion
C14_Witness ==
  \E r \in Requests : \E q \in Requests \ {r} :
    /\ pc[r] = "completions.create"
    /\ Done(q)
    /\ IsSuccess(Reply(q))
    /\ Reply(q).body.extractedText # extractedText[r]
    /\ file[q] # file[r]

(***************************************************************************)
(* C17: the upload list of the page                                        *)
(***************************************************************************)
UploadIdsOf(ups) == {ups[i].id : i \in 1..Len(ups)}

UploadOf(ups, id) == ups[CHOOSE i \in 1..Len(ups) : ups[i].id = id]

Terminal(u) == u.status \in {"completed", "error"}

StatusMoves ==
  {<<"uploading", "processing">>, <<"processing", "completed">>,
   <<"processing", "error">>}

\* A completed upload had an ok response and shows progress 100; no removed
\* upload is in the list; no id is listed twice
UploadListOk ==
  /\ \A i \in 1..Len(uploads) :
       uploads[i].status = "completed" =>
         /\ proc[uploads[i].id].ok
         /\ uploads[i].progress = 100
  /\ UploadIdsOf(uploads) \cap removed = {}
  /\ \A i, j \in 1..Len(uploads) : uploads[i].id = uploads[j].id => i = j

\* What one step may do to the list
UploadListStep ==
  /\ UploadIdsOf(uploads') \subseteq UploadIdsOf(uploads) \cup (Started' \ Started)
  /\ \A id \in UploadIdsOf(uploads) \cap UploadIdsOf(uploads') :
       LET u == UploadOf(uploads, id)
           v == UploadOf(uploads', id)
       IN /\ u.status # v.status => <<u.status, v.status>> \in StatusMoves
          /\ Terminal(u) => v = u
          /\ v # u =>
               /\ proc'[id] # proc[id]
               /\ \A other \in (UploadIdsOf(uploads) \cap UploadIdsOf(uploads')) \ {id} :
                    UploadOf(uploads', other) = UploadOf(uploads, other)

\* C17: an upload's status only moves uploading -> processing -> completed
\* or error, and a completed or failed upload is never changed again; a
\* completed upload had a response with an ok status and has progress 100;
\* an update processFile makes for one id changes no other upload, and no
\* removed upload comes back into the list.
C17_UploadList == [](UploadListOk) /\ [][UploadListStep]_vars

\* One upload was removed while its processFile ran to the end, and the
\* other one is completed
C17_Witness ==
  /\ \E id \in removed : proc[id].pc = "done" /\ proc[id].ok
  /\ \E i \in 1..Len(uploads) :
       uploads[i].status = "completed" /\ uploads[i].progress = 100

====
